---- MODULE Spec2Model ----
(***************************************************************************)
(* A model of ntfs/mft/MFT.py: the bounded LRU cache (Cache), the fixup    *)
(* applier (FixupBlock.fixup), the record enumerator (MFTEnumerator) and   *)
(* the path resolver (MFTEnumerator.get_path / _get_path_impl).            *)
(*                                                                         *)
(* Four specifications share the module; each drives one group of          *)
(* variables and leaves the others at their initial value:                 *)
(*   CacheSpec  - Cache.insert / Cache.touch                               *)
(*   FixupSpec  - FixupBlock.fixup over a 1024-byte record                 *)
(*   EnumSpec   - MFTEnumerator.enumerate_records / get_record             *)
(*   PathSpec   - MFTEnumerator.get_path / _get_path_impl                  *)
(***************************************************************************)
EXTENDS Integers, Sequences, FiniteSets, TLC

VARIABLES
    \* ---- Cache (MFT.py 1071-1097)
    c,              \* Cache._c: OrderedDict, a sequence of <<key, value>>, oldest first
    size_limit,     \* Cache._size_limit
    lastOp,         \* the last Cache call that returned: [op, k]
    evicted,        \* the keys that call removed from the map
    \* ---- FixupBlock (MFT.py 37-78)
    heap,           \* the byte buffers alive: "orig" (passed to the constructor) and "copy"
    blk_buf,        \* FixupBlock._buf: which buffer the block reads and writes
    blk_offset,     \* FixupBlock._offset
    backing0,       \* the bytes of the backing buffer when the block was constructed
    num_fixups,     \* argument of fixup
    fixup_value_offset, \* argument of fixup
    fixup_value,    \* local of fixup
    fi,             \* loop variable i of fixup
    fpc,            \* position in fixup: "start", "loop", "done", "raised"
    \* ---- MFTEnumerator (MFT.py 1107-1243)
    buf,            \* MFTEnumerator._buf: the MFT image, one decoded 1024-byte slot per element
    record_cache,   \* MFTEnumerator._record_cache._c
    rc_limit,       \* MFTEnumerator._record_cache._size_limit
    index,          \* enumerate_records: local index
    yielded,        \* enumerate_records: the slot numbers yielded so far, in order
    rec,            \* enumerate_records: the record yielded last
    epc,            \* enumerate_records: "running" or "done" (returned)
    runs,           \* number of enumerate_records generators started
    \* ---- path resolution (MFT.py 1174-1236)
    path_cache,     \* MFTEnumerator._path_cache._c
    pcache_limit,   \* MFTEnumerator._path_cache._size_limit
    target,         \* get_path: the record argument
    cur,            \* _get_path_impl: the record argument of the innermost call
    stack,          \* the suspended _get_path_impl calls, outermost first
    cycledetector,  \* the cycledetector set of the running resolution
    ret,            \* the value returned by the call that returned last
    result,         \* the value returned by get_path
    calls,          \* number of get_path calls started
    ppc,            \* "idle", "call", "return", "done", "recursion_error"
    \* ---- get_record observed from outside (MFT.py 1135-1152)
    gr,             \* the last get_record call: its argument, the cache before, the outcome
    gr_calls,       \* number of get_record calls made
    \* ---- get_record_by_path (MFT.py 1238-1243)
    lk_path,        \* get_record_by_path: the path argument
    lk_from,        \* the record whose get_path produced that argument
    lk_index,       \* enumerate_records inside enumerate_paths: local index
    lk_seen,        \* the (record, path) pairs enumerate_paths has produced, in order
    lk_result,      \* the record get_record_by_path returned
    lpc,            \* "idle", "enum", "path", "found", "keyerror"
    \* ---- MFTRecord.attributes / standard_information (MFT.py 949-1017)
    a_layout,       \* the attributes written into the record, in order
    a_mem,          \* the record's bytes from attrs_offset on, one dword per element
    a_offset,       \* attributes: local offset (relative to attrs_offset)
    a_yield,        \* the attributes the generator has yielded, in order
    a_si,           \* outcome of standard_information()
    apc,            \* "idle", "loop", "done", "called"
    \* ---- MFTTree (MFT.py 1277-1355)
    nodes,          \* MFTTree._nodes: record number -> MFTTreeNode
    t_cur,          \* _add_record: the record argument of the innermost call
    t_stack,        \* the suspended _add_record calls, outermost first
    t_created,      \* number of MFTTreeNode objects constructed
    tpc,            \* "idle", "enum", "add", "return", "done", or the exception that
                    \* ended build: "keyerror", "nameerror", "recursion_error"
    \* ---- Runlist (MFT.py 739-779) and Runentry (MFT.py 680-736)
    r_buf,          \* the bytes from the runlist's offset on
    r_length,       \* runs(length=...): 0 stands for None
    r_offset,       \* _entries: local offset (relative to the runlist's offset)
    r_entries,      \* _entries: the list ret, each entry by its offset
    r_last,         \* runs: local last_offset
    r_yield,        \* the (offset, length) pairs runs has yielded, in order
    rpc,            \* "idle", "entries", "runs", "done"
    \* ---- INDEX.entries / INDEX.slack_entries (MFT.py 285-339)
    i_class,        \* INDEX._INDEX_ENTRY: "MFT", "SII" or "SDH"
    i_hdr,          \* INDEX_HEADER: entries_offset, index_length, allocated_size
    i_buflen,       \* len(self._buf)
    i_ent,          \* what the buffer decodes to at an offset (by offset modulo its length)
    i_mode,         \* the generator running: "entries" or "slack"
    i_offset,       \* local offset of the generator
    i_count,        \* number of loop iterations made
    ipc             \* "idle", "loop", "done", "raised"

cvars == <<c, size_limit, lastOp, evicted>>
fvars == <<heap, blk_buf, blk_offset, backing0, num_fixups, fixup_value_offset,
           fixup_value, fi, fpc>>

evars == <<buf, record_cache, rc_limit, index, yielded, rec, epc, runs>>
pvars == <<path_cache, pcache_limit, target, cur, stack, cycledetector, ret, result,
           calls, ppc>>

gvars == <<gr, gr_calls>>
lvars == <<lk_path, lk_from, lk_index, lk_seen, lk_result, lpc>>
avars == <<a_layout, a_mem, a_offset, a_yield, a_si, apc>>
tvars == <<nodes, t_cur, t_stack, t_created, tpc>>
xvars == <<gvars, lvars, avars, tvars>>
rvars == <<r_buf, r_length, r_offset, r_entries, r_last, r_yield, rpc>>
ivars == <<i_class, i_hdr, i_buflen, i_ent, i_mode, i_offset, i_count, ipc>>
yvars == <<rvars, ivars>>

vars == <<c, size_limit, lastOp, evicted,
          heap, blk_buf, blk_offset, backing0, num_fixups, fixup_value_offset,
          fixup_value, fi, fpc,
          buf, record_cache, rc_limit, index, yielded, rec, epc, runs,
          path_cache, pcache_limit, target, cur, stack, cycledetector, ret, result,
          calls, ppc,
          gr, gr_calls,
          lk_path, lk_from, lk_index, lk_seen, lk_result, lpc,
          a_layout, a_mem, a_offset, a_yield, a_si, apc,
          nodes, t_cur, t_stack, t_created, tpc,
          r_buf, r_length, r_offset, r_entries, r_last, r_yield, rpc,
          i_class, i_hdr, i_buflen, i_ent, i_mode, i_offset, i_count, ipc>>

(***************************************************************************)
(* Bounds                                                                  *)
(***************************************************************************)
NumKeys == 3
MaxLimit == 3

Keys == 1..NumKeys
Vals == {"v1", "v2"}
NoOp == [op |-> "none", k |-> 0]

(***************************************************************************)
(* Cache                                                                   *)
(***************************************************************************)
\* the keys of an OrderedDict
KeysOf(d) == {d[i][1] : i \in 1..Len(d)}

\* position of key k in the OrderedDict d
PosOf(d, k) == CHOOSE i \in 1..Len(d) : d[i][1] = k

\* OrderedDict.__setitem__: a new key is appended, an existing key keeps its place
SetItem(d, k, v) ==
    IF k \in KeysOf(d)
    THEN [i \in 1..Len(d) |-> IF d[i][1] = k THEN <<k, v>> ELSE d[i]]
    ELSE Append(d, <<k, v>>)

\* OrderedDict.__delitem__
DelItem(d, k) == SelectSeq(d, LAMBDA e : e[1] # k)

\* Cache.exists
exists(d, k) == k \in KeysOf(d)

\* Cache.get
get(d, k) == d[PosOf(d, k)][2]

\* a slip in insert: the overflow test is dropped
insert_noevict(d, limit, k, v) == SetItem(d, k, v)

\* a slip in insert: popitem() pops the newest entry instead of the oldest
insert_poplast(d, limit, k, v) ==
    LET d1 == SetItem(d, k, v)
    IN  IF Len(d1) > limit THEN SubSeq(d1, 1, Len(d1) - 1) ELSE d1

\* Cache.insert
insert(d, limit, k, v) ==
    LET d1 == SetItem(d, k, v)
    IN  IF Len(d1) > limit THEN Tail(d1) ELSE d1

\* Cache.touch (the caller has checked exists)
touch(d, k) ==
    LET v == get(d, k)
    IN  Append(DelItem(d, k), <<k, v>>)

CacheIdle ==
    /\ c = << >>
    /\ size_limit = 0
    /\ lastOp = NoOp
    /\ evicted = {}

FixupIdle ==
    /\ heap = [orig |-> << >>, copy |-> << >>]
    /\ blk_buf = "orig"
    /\ blk_offset = 0
    /\ backing0 = << >>
    /\ num_fixups = 0
    /\ fixup_value_offset = 0
    /\ fixup_value = 0
    /\ fi = 0
    /\ fpc = "idle"

EnumIdle ==
    /\ buf = << >>
    /\ record_cache = << >>
    /\ rc_limit = 0
    /\ index = 0
    /\ yielded = << >>
    /\ rec = [status |-> "none"]
    /\ epc = "idle"
    /\ runs = 0

PathIdle ==
    /\ path_cache = << >>
    /\ pcache_limit = 0
    /\ target = [status |-> "none"]
    /\ cur = [status |-> "none"]
    /\ stack = << >>
    /\ cycledetector = {}
    /\ ret = << >>
    /\ result = << >>
    /\ calls = 0
    /\ ppc = "idle"

GetIdle ==
    /\ gr = [status |-> "none"]
    /\ gr_calls = 0

LookupIdle ==
    /\ lk_path = << >>
    /\ lk_from = [status |-> "none"]
    /\ lk_index = 0
    /\ lk_seen = << >>
    /\ lk_result = [status |-> "none"]
    /\ lpc = "idle"

AttrIdle ==
    /\ a_layout = << >>
    /\ a_mem = << >>
    /\ a_offset = 0
    /\ a_yield = << >>
    /\ a_si = [status |-> "none"]
    /\ apc = "idle"

TreeIdle ==
    /\ nodes = << >>
    /\ t_cur = [status |-> "none"]
    /\ t_stack = << >>
    /\ t_created = 0
    /\ tpc = "idle"

RunIdle ==
    /\ r_buf = << >>
    /\ r_length = 0
    /\ r_offset = 0
    /\ r_entries = << >>
    /\ r_last = 0
    /\ r_yield = << >>
    /\ rpc = "idle"

IndexIdle ==
    /\ i_class = "none"
    /\ i_hdr = [entries_offset |-> 0, index_length |-> 0, allocated_size |-> 0]
    /\ i_buflen = 0
    /\ i_ent = << >>
    /\ i_mode = "none"
    /\ i_offset = 0
    /\ i_count = 0
    /\ ipc = "idle"

CacheInit ==
    /\ c = << >>
    /\ size_limit \in 0..MaxLimit
    /\ lastOp = NoOp
    /\ evicted = {}
    /\ FixupIdle
    /\ EnumIdle
    /\ PathIdle
    /\ GetIdle /\ LookupIdle /\ AttrIdle /\ TreeIdle
    /\ RunIdle /\ IndexIdle

CacheInsert(k, v) ==
    /\ c' = insert(c, size_limit, k, v)
    /\ lastOp' = [op |-> "insert", k |-> k]
    /\ evicted' = (KeysOf(c) \cup {k}) \ KeysOf(c')
    /\ UNCHANGED <<size_limit, fvars, evars, pvars, xvars, yvars>>

\* touch of a missing key raises KeyError at `v = self._c[k]`, before any change
CacheTouch(k) ==
    /\ IF exists(c, k)
       THEN /\ c' = touch(c, k)
            /\ lastOp' = [op |-> "touch", k |-> k]
       ELSE /\ c' = c
            /\ lastOp' = [op |-> "touch_keyerror", k |-> k]
    /\ evicted' = KeysOf(c) \ KeysOf(c')
    /\ UNCHANGED <<size_limit, fvars, evars, pvars, xvars, yvars>>

CacheNext ==
    \/ \E k \in Keys, v \in Vals : CacheInsert(k, v)
    \/ \E k \in Keys : CacheTouch(k)

CacheSpec == CacheInit /\ [][CacheNext]_vars

(***************************************************************************)
(* C1: for any size limit L >= 0, after any sequence of insert and touch   *)
(* calls the cache never holds more than L entries.                        *)
(***************************************************************************)
CacheSizeBound == Len(c) <= size_limit

\* an insert into a full cache evicted an entry and left the cache full
CacheSizeBoundWitness ==
    /\ lastOp.op = "insert"
    /\ size_limit > 0
    /\ Len(c) = size_limit
    /\ evicted # {}

(***************************************************************************)
(* C2 as stated: whenever an insert evicts an entry, the evicted key is    *)
(* not the key of that insert. Fails for size limit 0.                     *)
(***************************************************************************)
EvictionVictimNeverNewest ==
    lastOp.op = "insert" => lastOp.k \notin evicted

(***************************************************************************)
(* C2 amended: for any size limit L >= 1, whenever an insert evicts an     *)
(* entry, the evicted key is not the key of that insert.                   *)
(***************************************************************************)
EvictionVictimNeverNewestPositiveLimit ==
    (size_limit >= 1 /\ lastOp.op = "insert") => lastOp.k \notin evicted

EvictionVictimWitness ==
    /\ size_limit >= 1
    /\ lastOp.op = "insert"
    /\ evicted # {}
    /\ exists(c, lastOp.k)

(***************************************************************************)
(* C3 as stated: after insert(k, v), k is at the most-recent end of the    *)
(* recency order, both when k was new and when k was already present.      *)
(***************************************************************************)
InsertPlacesKeyMostRecent ==
    (lastOp.op = "insert" /\ exists(c, lastOp.k)) => c[Len(c)][1] = lastOp.k

(***************************************************************************)
(* Block reads and writes (ntfs/BinaryParser.py; spec 4.1: every read      *)
(* validates origin + offset + width <= len(buffer), else overrun).        *)
(* A buffer is a sequence of bytes; the byte at offset o is b[o + 1].      *)
(***************************************************************************)
\* a read of `width` bytes at `o` would cross the end of a buffer of `len` bytes
Overrun(len, o, width) == o + width > len

\* Block.unpack_word: the little-endian word at offset o
unpack_word(b, o) == b[o + 1] + 256 * b[o + 2]

\* Block.pack_word: the buffer with the little-endian word w stored at offset o
pack_word(b, o, w) ==
    [j \in 1..Len(b) |-> IF j = o + 1 THEN w % 256
                         ELSE IF j = o + 2 THEN w \div 256
                         ELSE b[j]]

\* Block.unpack_binary: `length` bytes from offset o
unpack_binary(b, o, length) == SubSeq(b, o + 1, o + length)

(***************************************************************************)
(* FixupBlock.fixup                                                        *)
(***************************************************************************)
SECTOR_SIZE == 512
MFT_RECORD_SIZE == 1024

\* the largest fixup count tried
MaxFixups == 4

\* the buffer the block currently reads and writes
BlkBytes == heap[blk_buf]

\* offset of the last word of sector i + 1
FixupOffset(i) == SECTOR_SIZE * (i + 1) - 2

\* length of the working copy
FixupLength(n) == (n - 1) * SECTOR_SIZE

\* test buffers: a zeroed record holding an update sequence array at `fvo`
\* (the fixup value 258 and the replacements 772, 1286) and the sector tails t0, t1
Zeroes(n) == [j \in 1..n |-> 0]
Poke(b, o, w) == IF Overrun(Len(b), o, 2) THEN b ELSE pack_word(b, o, w)
RecordBytes(fvo, t0, t1) ==
    Poke(Poke(Poke(Poke(Poke(Zeroes(MFT_RECORD_SIZE), fvo, 258), fvo + 2, 772),
                   fvo + 4, 1286), FixupOffset(0), t0), FixupOffset(1), t1)

FixupInit ==
    /\ \E off \in {0, 4}, fvo \in {48, 506, 510, 1020, 1023}, t0 \in {258, 2827}, t1 \in {258, 2827} :
          /\ heap = [orig |-> Zeroes(off) \o RecordBytes(fvo, t0, t1), copy |-> << >>]
          /\ blk_offset = off
          /\ fixup_value_offset = fvo
    /\ blk_buf = "orig"
    /\ backing0 = heap["orig"]
    /\ num_fixups \in 1..MaxFixups
    /\ fixup_value = 0
    /\ fi = 0
    /\ fpc = "start"
    /\ CacheIdle
    /\ EnumIdle
    /\ PathIdle
    /\ GetIdle /\ LookupIdle /\ AttrIdle /\ TreeIdle
    /\ RunIdle /\ IndexIdle

\* a slip in fixup: the patches are applied in place, without the private copy
FixupBeginInPlace ==
    /\ fpc = "start"
    /\ IF Overrun(Len(BlkBytes), blk_offset, FixupLength(num_fixups))
          \/ Overrun(Len(BlkBytes), blk_offset + fixup_value_offset, 2)
       THEN /\ fpc' = "raised"
            /\ UNCHANGED <<fixup_value, heap, blk_buf, blk_offset>>
       ELSE /\ fixup_value' = unpack_word(BlkBytes, blk_offset + fixup_value_offset)
            /\ fpc' = IF num_fixups - 1 > 0 THEN "loop" ELSE "done"
            /\ UNCHANGED <<heap, blk_buf, blk_offset>>
    /\ UNCHANGED <<backing0, num_fixups, fixup_value_offset, fi, cvars, evars, pvars, xvars, yvars>>

\* fixup, lines 58-62: copy (num_fixups - 1) * 512 bytes, switch the block to the
\* copy with origin 0, read the fixup value
FixupBegin ==
    /\ fpc = "start"
    /\ IF Overrun(Len(BlkBytes), blk_offset, FixupLength(num_fixups))
       THEN \* unpack_binary raises; nothing was assigned
            /\ fpc' = "raised"
            /\ UNCHANGED <<heap, blk_buf, blk_offset, fixup_value>>
       ELSE /\ heap' = [heap EXCEPT !["copy"] =
                           unpack_binary(BlkBytes, blk_offset, FixupLength(num_fixups))]
            /\ blk_buf' = "copy"
            /\ blk_offset' = 0
            /\ IF Overrun(FixupLength(num_fixups), fixup_value_offset, 2)
               THEN /\ fpc' = "raised"
                    /\ UNCHANGED fixup_value
               ELSE /\ fixup_value' = unpack_word(heap'["copy"], fixup_value_offset)
                    /\ fpc' = IF num_fixups - 1 > 0 THEN "loop" ELSE "done"
    /\ UNCHANGED <<backing0, num_fixups, fixup_value_offset, fi, cvars, evars, pvars, xvars, yvars>>

\* a slip in fixup: a bad fixup ends the loop (break) instead of skipping the sector
FixupIterBreak ==
    /\ fpc = "loop"
    /\ LET fixup_offset == FixupOffset(fi)
           check_value == unpack_word(BlkBytes, blk_offset + fixup_offset)
       IN  IF check_value # fixup_value
           THEN /\ fpc' = "done"
                /\ UNCHANGED <<heap, fi>>
           ELSE IF Overrun(Len(BlkBytes), blk_offset + fixup_value_offset + 2 + 2 * fi, 2)
           THEN /\ fpc' = "raised"
                /\ UNCHANGED <<heap, fi>>
           ELSE LET new_value == unpack_word(BlkBytes,
                                     blk_offset + fixup_value_offset + 2 + 2 * fi)
                IN  /\ heap' = [heap EXCEPT ![blk_buf] =
                                   pack_word(@, blk_offset + fixup_offset, new_value)]
                    /\ fi' = fi + 1
                    /\ fpc' = IF fi + 1 < num_fixups - 1 THEN "loop" ELSE "done"
    /\ UNCHANGED <<blk_buf, blk_offset, backing0, num_fixups, fixup_value_offset,
                   fixup_value, cvars, evars, pvars, xvars, yvars>>

\* fixup, lines 64-78: one iteration of the loop over the sectors
FixupIter ==
    /\ fpc = "loop"
    /\ LET fixup_offset == FixupOffset(fi)
           check_value == unpack_word(BlkBytes, blk_offset + fixup_offset)
       IN  IF check_value # fixup_value
           THEN \* "Bad fixup": logged, continue
                /\ fi' = fi + 1
                /\ fpc' = IF fi + 1 < num_fixups - 1 THEN "loop" ELSE "done"
                /\ UNCHANGED heap
           ELSE IF Overrun(Len(BlkBytes), blk_offset + fixup_value_offset + 2 + 2 * fi, 2)
           THEN \* unpack_word raises
                /\ fpc' = "raised"
                /\ UNCHANGED <<heap, fi>>
           ELSE LET new_value == unpack_word(BlkBytes,
                                     blk_offset + fixup_value_offset + 2 + 2 * fi)
                IN  /\ heap' = [heap EXCEPT ![blk_buf] =
                                   pack_word(@, blk_offset + fixup_offset, new_value)]
                    /\ fi' = fi + 1
                    /\ fpc' = IF fi + 1 < num_fixups - 1 THEN "loop" ELSE "done"
    /\ UNCHANGED <<blk_buf, blk_offset, backing0, num_fixups, fixup_value_offset,
                   fixup_value, cvars, evars, pvars, xvars, yvars>>

FixupNext == FixupBegin \/ FixupIter

FixupSpec == FixupInit /\ [][FixupNext]_vars

(***************************************************************************)
(* C7: fixup never mutates the buffer passed to the constructor: it is     *)
(* byte-identical before, during and after fixup, and once the copy is     *)
(* made the block reads and patches only the private copy, with origin 0.  *)
(***************************************************************************)
FixupLeavesBackingBuffer ==
    /\ heap["orig"] = backing0
    /\ fpc \in {"loop", "done"} => (blk_buf = "copy" /\ blk_offset = 0)

\* fixup completed and patched at least one sector of the working copy
FixupLeavesBackingBufferWitness ==
    /\ fpc = "done"
    /\ blk_buf = "copy"
    /\ \E i \in 0..(num_fixups - 2) :
          unpack_word(heap["copy"], FixupOffset(i)) = 772
          /\ unpack_word(backing0, (Len(backing0) - MFT_RECORD_SIZE) + FixupOffset(i)) = 258

(***************************************************************************)
(* C8: patching is per sector. In iteration i the last word of sector i+1  *)
(* of the working copy is overwritten with the word at                     *)
(* USA_offset + 2 + 2i when it equals the fixup value and is left          *)
(* unchanged when it differs; no other byte changes; a mismatch does not   *)
(* stop the loop, which ends only after all N - 1 sectors are processed.   *)
(***************************************************************************)
FixupPerSectorStep ==
    (fpc = "loop" /\ fpc' # "raised") =>
        LET off == FixupOffset(fi)
            w   == heap["copy"]
            w2  == heap'["copy"]
        IN  /\ unpack_word(w2, off) =
                  IF unpack_word(w, off) = unpack_word(backing0,
                        (Len(backing0) - MFT_RECORD_SIZE) + fixup_value_offset)
                  THEN unpack_word(w, fixup_value_offset + 2 + 2 * fi)
                  ELSE unpack_word(w, off)
            /\ \A j \in 1..Len(w) : j \notin {off + 1, off + 2} => w2[j] = w[j]
            /\ fi' = fi + 1
            /\ (fi + 1 < num_fixups - 1) => fpc' = "loop"

FixupPerSector ==
    /\ [][FixupPerSectorStep]_vars
    /\ [](fpc = "done" => fi = num_fixups - 1)

\* sector 1 mismatched and was left alone, sector 2 was still patched
FixupPerSectorWitness ==
    /\ fpc = "done"
    /\ num_fixups = 3
    /\ unpack_word(heap["copy"], FixupOffset(0)) = 2827
    /\ unpack_word(heap["copy"], FixupOffset(1)) = 1286

(***************************************************************************)
(* MFT records and the enumerator                                          *)
(***************************************************************************)
FILE_MAGIC == 1162627398    \* 0x454C4946, "FILE"
DEFAULT_CACHE_SIZE == 102400

\* the largest image, in records
MaxRecords == 20
\* the most enumerate_records generators run over one enumerator
MaxRuns == 2
\* the most damaged slots in an image
MaxDamaged == 2

NoRecord == [status |-> "none"]
NoFn == [present |-> FALSE]

\* the header fields of a well-formed record in slot n (no FILENAME attribute)
PlainRecord(n) ==
    [magic |-> FILE_MAGIC, usa_offset |-> 48, usa_count |-> 3, lsn |-> 1000 + n,
     sequence_number |-> 1, link_count |-> 1, flags |-> 1,
     bytes_in_use |-> 416, bytes_allocated |-> 1024,
     mft_record_number |-> n, fn |-> NoFn]

\* damaged variants of a slot
Damaged(r, kind) ==
    CASE kind = "magic" -> [r EXCEPT !.magic = 1145127234]       \* "BAAD"
      [] kind = "usa"   -> [r EXCEPT !.usa_count = 4]            \* copy of 1536 bytes
      [] kind = "size"  -> [r EXCEPT !.bytes_in_use = 2048]      \* in use > allocated
      [] OTHER          -> r

DamageKinds == {"magic", "usa", "size"}
DamageSlots == {0, 11, 16, 18}

\* MFTRecord.__init__, line 947: fixup(usa_count, usa_offset) over the 1024-byte
\* slot raises overrun when the copy or the read of the fixup value overruns
\* (the update sequence arrays of the images here lie inside the first sector, so
\* the replacement words are in range whenever the fixup value is)
MFTRecordRaises(slot) ==
    \/ Overrun(MFT_RECORD_SIZE, 0, FixupLength(slot.usa_count))
    \/ Overrun(FixupLength(slot.usa_count), slot.usa_offset, 2)

\* MFTRecord.__init__: the decoded record; `inode or self.mft_record_number()`
MFTRecord(slot, inode) ==
    [status |-> "ok",
     magic |-> slot.magic, lsn |-> slot.lsn, sequence_number |-> slot.sequence_number,
     link_count |-> slot.link_count, flags |-> slot.flags,
     bytes_in_use |-> slot.bytes_in_use, bytes_allocated |-> slot.bytes_allocated,
     mft_record_number |-> slot.mft_record_number, fn |-> slot.fn,
     inode |-> IF inode # 0 THEN inode ELSE slot.mft_record_number]

\* a slip in get_record: the magic of the slot is not checked
get_record_nomagic(image, cache, limit, record_num) ==
    IF exists(cache, record_num)
    THEN [status |-> "ok", record |-> get(cache, record_num),
          cache |-> touch(cache, record_num)]
    ELSE IF Overrun(Len(image) * MFT_RECORD_SIZE, record_num * MFT_RECORD_SIZE,
                    MFT_RECORD_SIZE)
    THEN [status |-> "overrun", record |-> NoRecord, cache |-> cache]
    ELSE IF MFTRecordRaises(image[record_num + 1])
    THEN [status |-> "overrun", record |-> NoRecord, cache |-> cache]
    ELSE LET record == MFTRecord(image[record_num + 1], record_num)
         IN  [status |-> "ok", record |-> record,
              cache |-> insert(cache, limit, record_num, record)]

\* MFTEnumerator.get_record (with get_record_buf): the outcome, the record
\* returned and the record cache afterwards
get_record(image, cache, limit, record_num) ==
    IF exists(cache, record_num)
    THEN [status |-> "ok", record |-> get(cache, record_num),
          cache |-> touch(cache, record_num)]
    ELSE IF Overrun(Len(image) * MFT_RECORD_SIZE, record_num * MFT_RECORD_SIZE,
                    MFT_RECORD_SIZE)
    THEN \* get_record_buf raises OverrunBufferException
         [status |-> "overrun", record |-> NoRecord, cache |-> cache]
    ELSE IF image[record_num + 1].magic # FILE_MAGIC
    THEN \* InvalidRecordException
         [status |-> "invalid", record |-> NoRecord, cache |-> cache]
    ELSE IF MFTRecordRaises(image[record_num + 1])
    THEN \* OverrunBufferException out of MFTRecord.__init__ (fixup)
         [status |-> "overrun", record |-> NoRecord, cache |-> cache]
    ELSE LET record == MFTRecord(image[record_num + 1], record_num)
         IN  [status |-> "ok", record |-> record,
              cache |-> insert(cache, limit, record_num, record)]

EnumInit ==
    /\ \E n \in 0..MaxRecords, D \in SUBSET DamageSlots, kind \in [DamageSlots -> DamageKinds] :
          /\ Cardinality(D) <= MaxDamaged
          /\ buf = [j \in 1..n |-> IF (j - 1) \in D
                                   THEN Damaged(PlainRecord(j - 1), kind[j - 1])
                                   ELSE PlainRecord(j - 1)]
    /\ record_cache = << >>
    /\ rc_limit \in {0, 2, DEFAULT_CACHE_SIZE}
    /\ index = 0
    /\ yielded = << >>
    /\ rec = NoRecord
    /\ epc = "running"
    /\ runs = 1
    /\ CacheIdle
    /\ FixupIdle
    /\ PathIdle
    /\ GetIdle /\ LookupIdle /\ AttrIdle /\ TreeIdle
    /\ RunIdle /\ IndexIdle

\* a slip in enumerate_records: the reserved records are not skipped
EnumStepNoSkip ==
    /\ epc = "running"
    /\ LET r == get_record(buf, record_cache, rc_limit, index)
       IN  /\ record_cache' = r.cache
           /\ CASE r.status = "ok" ->
                      /\ yielded' = Append(yielded, index)
                      /\ rec' = r.record
                      /\ index' = index + 1
                      /\ UNCHANGED epc
                [] r.status = "invalid" ->
                      /\ index' = index + 1
                      /\ UNCHANGED <<yielded, rec, epc>>
                [] r.status = "overrun" ->
                      /\ epc' = "done"
                      /\ UNCHANGED <<yielded, rec, index>>
    /\ UNCHANGED <<buf, rc_limit, runs, cvars, fvars, pvars, xvars, yvars>>

\* enumerate_records: one iteration of the while loop, up to the yield or return
EnumStep ==
    /\ epc = "running"
    /\ LET idx == IF index = 12 THEN 16 ELSE index
           r == get_record(buf, record_cache, rc_limit, idx)
       IN  /\ record_cache' = r.cache
           /\ CASE r.status = "ok" ->
                      /\ yielded' = Append(yielded, idx)
                      /\ rec' = r.record
                      /\ index' = idx + 1
                      /\ UNCHANGED epc
                [] r.status = "invalid" ->
                      /\ index' = idx + 1
                      /\ UNCHANGED <<yielded, rec, epc>>
                [] r.status = "overrun" ->
                      /\ epc' = "done"
                      /\ index' = idx
                      /\ UNCHANGED <<yielded, rec>>
    /\ UNCHANGED <<buf, rc_limit, runs, cvars, fvars, pvars, xvars, yvars>>

\* a new enumerate_records generator over the same enumerator and caches
EnumRestart ==
    /\ epc = "done"
    /\ runs < MaxRuns
    /\ runs' = runs + 1
    /\ index' = 0
    /\ yielded' = << >>
    /\ rec' = NoRecord
    /\ epc' = "running"
    /\ UNCHANGED <<buf, record_cache, rc_limit, cvars, fvars, pvars, xvars, yvars>>

EnumNext == EnumStep \/ EnumRestart

EnumSpec == EnumInit /\ [][EnumNext]_vars

\* the consumer keeps drawing from the generator
EnumFairSpec == EnumSpec /\ WF_vars(EnumStep)

Reserved == 12..15

\* the slot holds a record that decodes
Decodable(slot) == slot.magic = FILE_MAGIC /\ ~MFTRecordRaises(slot)

\* the slot numbers 0..n-1 without the reserved ones, in increasing order
RECURSIVE Unreserved(_)
Unreserved(n) ==
    IF n = 0 THEN << >>
    ELSE IF (n - 1) \in Reserved THEN Unreserved(n - 1)
    ELSE Append(Unreserved(n - 1), n - 1)

(***************************************************************************)
(* C4: enumerate_records yields slots in strictly increasing order from    *)
(* index 0, never yields a reserved slot 12..15, and terminates; over an   *)
(* image whose slots all decode it yields exactly the unreserved slots     *)
(* (0..11, 16..19 for 20 slots).                                           *)
(***************************************************************************)
EnumOrderState ==
    /\ \A i, j \in 1..Len(yielded) : i < j => yielded[i] < yielded[j]
    /\ \A i \in 1..Len(yielded) : yielded[i] \notin Reserved
    /\ (epc = "done" /\ \A j \in 1..Len(buf) : Decodable(buf[j]))
          => yielded = Unreserved(Len(buf))

EnumOrder ==
    /\ []EnumOrderState
    /\ (epc = "running") ~> (epc = "done")

\* an enumeration over 20 decodable slots has returned
EnumOrderWitness ==
    /\ epc = "done"
    /\ Len(buf) = 20
    /\ \A j \in 1..Len(buf) : Decodable(buf[j])
    /\ yielded = <<0, 1, 2, 3, 4, 5, 6, 7, 8, 9, 10, 11, 16, 17, 18, 19>>

(***************************************************************************)
(* C5 as stated: a damaged record never aborts enumerate_records: when the *)
(* enumeration has returned, every unreserved slot that holds a decodable  *)
(* record has been yielded.                                                *)
(***************************************************************************)
DamagedRecordNeverAborts ==
    epc = "done" =>
        \A n \in 0..(Len(buf) - 1) :
            (n \notin Reserved /\ Decodable(buf[n + 1]))
                => \E i \in 1..Len(yielded) : yielded[i] = n

(***************************************************************************)
(* C6 as stated: every record yielded has magic FILE and                   *)
(* bytes_in_use <= bytes_allocated <= 1024.                                *)
(***************************************************************************)
YieldedRecordWellFormed ==
    rec # NoRecord =>
        /\ rec.magic = FILE_MAGIC
        /\ rec.bytes_in_use <= rec.bytes_allocated
        /\ rec.bytes_allocated <= MFT_RECORD_SIZE

(***************************************************************************)
(* C6 amended: every record yielded, decoded fresh or served from the      *)
(* record cache, has magic FILE (the size fields are not validated).       *)
(***************************************************************************)
YieldedRecordHasMagic ==
    rec # NoRecord => rec.magic = FILE_MAGIC

\* a record was served from the record cache by a second enumeration of an
\* image that has a slot with a bad magic
YieldedRecordHasMagicWitness ==
    /\ rec # NoRecord
    /\ runs = 2
    /\ rc_limit = DEFAULT_CACHE_SIZE
    /\ \E j \in 1..Len(buf) : buf[j].magic # FILE_MAGIC /\ j - 1 < rec.inode

(***************************************************************************)
(* Path resolution: MFTEnumerator.get_path / _get_path_impl                *)
(* A string is a sequence of characters.                                   *)
(***************************************************************************)
FILE_SEP == <<"\\">>
UNKNOWN_ENTRY == <<"?", "?">>
ORPHAN_ENTRY == <<"$", "O", "R", "P", "H", "A", "N">>
CYCLE_ENTRY == <<"<", "C", "Y", "C", "L", "E", ">">>
ROOT_INDEX == 5

\* the number of slots of the images resolved
PathRecords == 8
\* the most get_path calls made on one enumerator
MaxCalls == 2
\* the interpreter's recursion limit, above any depth the resolver needs here
RecursionLimit == PathRecords + 3

\* a 64-bit MFT reference as its four 16-bit words, least significant first
Ref(n, seq) == <<n % 65536, (n \div 65536) % 65536, 0, seq>>

\* MREF: mft_reference & 0xFFFFFFFFFFFF
MREF(mft_reference) ==
    mft_reference[1] + 65536 * mft_reference[2] + (65536 * mft_reference[3]) * 65536

\* MSEQNO: (mft_reference >> 48) & 0xFFFF
MSEQNO(mft_reference) == mft_reference[4] % 65536

\* the slots that differ between the images, and the slots get_path is called on
VarSlots == {6, 7}
TargetSlots == {0, 5, 6, 7}

\* FilenameAttribute: the fields filename_information() exposes
Fn(name, parent, seq) ==
    [present |-> TRUE, filename |-> name, mft_parent_reference |-> Ref(parent, seq)]

SlotName(n) == IF n = 6 THEN <<"a">> ELSE <<"B">>

\* the root directory record and its damaged or renumbered variants
RootRecords ==
    LET root == [PlainRecord(ROOT_INDEX) EXCEPT !.flags = 3,
                                                !.fn = Fn(<<".">>, ROOT_INDEX, 1)]
    IN  {root, Damaged(root, "magic"), [root EXCEPT !.mft_record_number = 6]}

\* the contents tried in a variable slot n: bad magic, no FILENAME, or a FILENAME
\* naming as parent the root, a variable slot or a slot past the image, with a
\* matching (1) or stale (9) sequence number; the record number stored in the
\* record is n or 6
SlotRecords(n) ==
    {Damaged(PlainRecord(n), "magic"), [PlainRecord(n) EXCEPT !.lsn = 77]}
    \cup { [PlainRecord(n) EXCEPT !.lsn = 77, !.mft_record_number = field,
                                  !.fn = Fn(SlotName(n), parent, seq)] :
             field \in {n, 6}, parent \in {ROOT_INDEX, PathRecords} \cup VarSlots,
             seq \in {1, 9} }

PathInit ==
    /\ \E root \in RootRecords, v \in [VarSlots -> UNION {SlotRecords(n) : n \in VarSlots}] :
          /\ \A n \in VarSlots : v[n] \in SlotRecords(n)
          /\ buf = [j \in 1..PathRecords |->
                       IF j - 1 = ROOT_INDEX THEN root
                       ELSE IF (j - 1) \in VarSlots THEN v[j - 1]
                       ELSE PlainRecord(j - 1)]
    /\ record_cache = << >>
    /\ rc_limit \in {1, DEFAULT_CACHE_SIZE}
    /\ path_cache = << >>
    /\ pcache_limit \in {1, DEFAULT_CACHE_SIZE}
    /\ target = NoRecord
    /\ cur = NoRecord
    /\ stack = << >>
    /\ cycledetector = {}
    /\ ret = << >>
    /\ result = << >>
    /\ calls = 0
    /\ ppc = "idle"
    /\ index = 0
    /\ yielded = << >>
    /\ rec = NoRecord
    /\ epc = "idle"
    /\ runs = 0
    /\ CacheIdle
    /\ FixupIdle
    /\ GetIdle /\ LookupIdle /\ AttrIdle /\ TreeIdle
    /\ RunIdle /\ IndexIdle

\* _get_path_impl, lines 1201-1203: the path cache key
PathKey(record) ==
    <<record.magic, record.lsn, record.link_count, record.mft_record_number,
      record.flags>>

\* a caller obtains a record from get_record and calls get_path(record)
PathCall(n) ==
    /\ ppc \in {"idle", "done"}
    /\ calls < MaxCalls
    /\ LET r == get_record(buf, record_cache, rc_limit, n)
       IN  /\ r.status = "ok"
           /\ record_cache' = r.cache
           /\ target' = r.record
           /\ cur' = r.record
    /\ calls' = calls + 1
    /\ stack' = << >>
    /\ cycledetector' = {}
    /\ ppc' = "call"
    /\ UNCHANGED <<path_cache, pcache_limit, ret, result,
                   buf, rc_limit, index, yielded, rec, epc, runs, cvars, fvars, xvars, yvars>>

\* a slip in _get_path_impl: the record number is not added to the cycledetector
PathImplEnterNoAdd ==
    /\ ppc = "call"
    /\ LET key == PathKey(cur)
           record_num == cur.mft_record_number
           fn == cur.fn
           parent_record_num == MREF(fn.mft_parent_reference)
           parent_seq_num == MSEQNO(fn.mft_parent_reference)
           p == get_record(buf, record_cache, rc_limit, parent_record_num)
           orphan == ORPHAN_ENTRY \o FILE_SEP \o fn.filename
       IN  IF exists(path_cache, key)
           THEN /\ path_cache' = touch(path_cache, key)
                /\ ret' = get(path_cache, key)
                /\ ppc' = "return"
                /\ UNCHANGED <<cycledetector, record_cache, cur, stack>>
           ELSE IF record_num = ROOT_INDEX
           THEN /\ ret' = << >>
                /\ ppc' = "return"
                /\ UNCHANGED <<path_cache, cycledetector, record_cache, cur, stack>>
           ELSE IF record_num \in cycledetector
           THEN /\ ret' = CYCLE_ENTRY
                /\ ppc' = "return"
                /\ UNCHANGED <<path_cache, cycledetector, record_cache, cur, stack>>
           ELSE /\ UNCHANGED cycledetector
                /\ UNCHANGED path_cache
                /\ IF ~fn.present
                   THEN /\ ret' = UNKNOWN_ENTRY
                        /\ ppc' = "return"
                        /\ UNCHANGED <<record_cache, cur, stack>>
                   ELSE /\ record_cache' = p.cache
                        /\ IF p.status # "ok"
                           THEN /\ ret' = orphan
                                /\ ppc' = "return"
                                /\ UNCHANGED <<cur, stack>>
                           ELSE IF p.record.sequence_number # parent_seq_num
                           THEN /\ ret' = orphan
                                /\ ppc' = "return"
                                /\ UNCHANGED <<cur, stack>>
                           ELSE IF Len(stack) + 1 >= RecursionLimit
                           THEN /\ ppc' = "recursion_error"
                                /\ UNCHANGED <<ret, cur, stack>>
                           ELSE /\ stack' = Append(stack, [record |-> cur, key |-> key,
                                                           record_filename |-> fn.filename])
                                /\ cur' = p.record
                                /\ ppc' = "call"
                                /\ UNCHANGED ret
    /\ UNCHANGED <<pcache_limit, target, result, calls,
                   buf, rc_limit, index, yielded, rec, epc, runs, cvars, fvars, xvars, yvars>>

\* _get_path_impl, lines 1201-1234: from entry to a return or to the recursive call
PathImplEnter ==
    /\ ppc = "call"
    /\ LET key == PathKey(cur)
           record_num == cur.mft_record_number
           fn == cur.fn
           parent_record_num == MREF(fn.mft_parent_reference)
           parent_seq_num == MSEQNO(fn.mft_parent_reference)
           p == get_record(buf, record_cache, rc_limit, parent_record_num)
           orphan == ORPHAN_ENTRY \o FILE_SEP \o fn.filename
       IN  IF exists(path_cache, key)
           THEN /\ path_cache' = touch(path_cache, key)
                /\ ret' = get(path_cache, key)
                /\ ppc' = "return"
                /\ UNCHANGED <<cycledetector, record_cache, cur, stack>>
           ELSE IF record_num = ROOT_INDEX
           THEN /\ ret' = << >>
                /\ ppc' = "return"
                /\ UNCHANGED <<path_cache, cycledetector, record_cache, cur, stack>>
           ELSE IF record_num \in cycledetector
           THEN /\ ret' = CYCLE_ENTRY
                /\ ppc' = "return"
                /\ UNCHANGED <<path_cache, cycledetector, record_cache, cur, stack>>
           ELSE /\ cycledetector' = cycledetector \cup {record_num}
                /\ UNCHANGED path_cache
                /\ IF ~fn.present
                   THEN /\ ret' = UNKNOWN_ENTRY
                        /\ ppc' = "return"
                        /\ UNCHANGED <<record_cache, cur, stack>>
                   ELSE /\ record_cache' = p.cache
                        /\ IF p.status # "ok"
                           THEN /\ ret' = orphan
                                /\ ppc' = "return"
                                /\ UNCHANGED <<cur, stack>>
                           ELSE IF p.record.sequence_number # parent_seq_num
                           THEN /\ ret' = orphan
                                /\ ppc' = "return"
                                /\ UNCHANGED <<cur, stack>>
                           ELSE IF Len(stack) + 1 >= RecursionLimit
                           THEN \* the interpreter refuses the recursive call
                                /\ ppc' = "recursion_error"
                                /\ UNCHANGED <<ret, cur, stack>>
                           ELSE \* line 1234: the recursive call
                                /\ stack' = Append(stack, [record |-> cur, key |-> key,
                                                           record_filename |-> fn.filename])
                                /\ cur' = p.record
                                /\ ppc' = "call"
                                /\ UNCHANGED ret
    /\ UNCHANGED <<pcache_limit, target, result, calls,
                   buf, rc_limit, index, yielded, rec, epc, runs, cvars, fvars, xvars, yvars>>

\* a slip in _get_path_impl: the path of the parent is not prepended
PathImplReturnDropParent ==
    /\ ppc = "return"
    /\ stack # << >>
    /\ LET frame == stack[Len(stack)]
           path == FILE_SEP \o frame.record_filename
       IN  /\ path_cache' = insert(path_cache, pcache_limit, frame.key, path)
           /\ ret' = path
           /\ cur' = frame.record
    /\ stack' = SubSeq(stack, 1, Len(stack) - 1)
    /\ UNCHANGED <<ppc, pcache_limit, target, cycledetector, result, calls,
                   evars, cvars, fvars, xvars, yvars>>

\* _get_path_impl, lines 1234-1236: the recursive call has returned
PathImplReturn ==
    /\ ppc = "return"
    /\ stack # << >>
    /\ LET frame == stack[Len(stack)]
           path == ret \o FILE_SEP \o frame.record_filename
       IN  /\ path_cache' = insert(path_cache, pcache_limit, frame.key, path)
           /\ ret' = path
           /\ cur' = frame.record
    /\ stack' = SubSeq(stack, 1, Len(stack) - 1)
    /\ UNCHANGED <<ppc, pcache_limit, target, cycledetector, result, calls,
                   evars, cvars, fvars, xvars, yvars>>

\* get_path, lines 1188-1192: the outermost _get_path_impl has returned
PathFinish ==
    /\ ppc = "return"
    /\ stack = << >>
    /\ result' = IF ret = << >> THEN FILE_SEP ELSE ret
    /\ ppc' = "done"
    /\ UNCHANGED <<path_cache, pcache_limit, target, cur, stack, cycledetector, ret,
                   calls, evars, cvars, fvars, xvars, yvars>>

PathRun == PathImplEnter \/ PathImplReturn \/ PathFinish

PathNext == (\E n \in TargetSlots : PathCall(n)) \/ PathRun

PathSpec == PathInit /\ [][PathNext]_vars

\* a call that has started runs on (single-threaded, synchronous execution)
PathFairSpec == PathSpec /\ WF_vars(PathRun)

\* the part of a path before its first separator
RECURSIVE FirstComponent(_)
FirstComponent(p) ==
    IF p = << >> \/ <<Head(p)>> = FILE_SEP THEN << >>
    ELSE <<Head(p)>> \o FirstComponent(Tail(p))

\* the filenames of the records whose parent reference names record 5
RootChildNames ==
    {buf[j].fn.filename : j \in {i \in 1..Len(buf) :
        buf[i].fn.present /\ MREF(buf[i].fn.mft_parent_reference) = ROOT_INDEX}}

(***************************************************************************)
(* C9 as stated: for every record other than the root (here: every such    *)
(* record that has a FILENAME attribute, so that a path is resolved), the  *)
(* path returned by get_path does not begin with the separator, and its    *)
(* first component is the filename of a record whose parent is record 5,   *)
(* or $ORPHAN.                                                             *)
(***************************************************************************)
PathShape ==
    (/\ ppc = "done"
     /\ target.mft_record_number # ROOT_INDEX
     /\ target.inode # ROOT_INDEX
     /\ target.fn.present) =>
        /\ result # << >>
        /\ <<Head(result)>> # FILE_SEP
        /\ FirstComponent(result) \in RootChildNames \cup {ORPHAN_ENTRY}

(***************************************************************************)
(* C10: get_path terminates for every image and record, parent cycles and  *)
(* self-parents included; the suspended _get_path_impl calls of one        *)
(* resolution are for pairwise different record numbers, all in the        *)
(* cycledetector, so their number is at most the number of records.        *)
(***************************************************************************)
PathDepthBounded ==
    /\ \A i, j \in 1..Len(stack) :
          i # j => stack[i].record.mft_record_number # stack[j].record.mft_record_number
    /\ \A i \in 1..Len(stack) : stack[i].record.mft_record_number \in cycledetector
    /\ Len(stack) <= Len(buf)
    /\ ppc # "recursion_error"

PathTerminates ==
    /\ []PathDepthBounded
    /\ (ppc = "call") ~> (ppc = "done")

\* a resolution that ran into a parent cycle has returned
PathTerminatesWitness ==
    /\ ppc = "done"
    /\ Len(result) >= Len(CYCLE_ENTRY)
    /\ SubSeq(result, 1, Len(CYCLE_ENTRY)) = CYCLE_ENTRY
    /\ Cardinality(cycledetector) >= 2

\* the slot a FILENAME's parent reference names, when it lies inside the image
ParentSlot(fn) == buf[MREF(fn.mft_parent_reference) + 1]

\* the parent reference names a decodable record whose sequence number differs
StaleParent(record) ==
    /\ record.fn.present
    /\ MREF(record.fn.mft_parent_reference) < Len(buf)
    /\ Decodable(ParentSlot(record.fn))
    /\ ParentSlot(record.fn).sequence_number # MSEQNO(record.fn.mft_parent_reference)

\* string s occurs in string p
Contains(p, s) ==
    \E i \in 1..(Len(p) - Len(s) + 1) : SubSeq(p, i, i + Len(s) - 1) = s

(***************************************************************************)
(* C11 as stated: a non-root record with a FILENAME whose parent           *)
(* reference carries a sequence number different from the parent record's  *)
(* current one resolves to $ORPHAN\<filename>, whatever the caches hold    *)
(* and whatever calls preceded.                                            *)
(***************************************************************************)
OrphanCorrect ==
    (/\ ppc = "done"
     /\ target.mft_record_number # ROOT_INDEX
     /\ target.inode # ROOT_INDEX
     /\ StaleParent(target)) =>
        result = ORPHAN_ENTRY \o FILE_SEP \o target.fn.filename

(***************************************************************************)
(* C12 as stated: when slot 5 holds a record with valid magic,             *)
(* get_path(get_record(5)) returns exactly the separator, whatever the     *)
(* record's FILENAME, the record number stored in it and the path cache.   *)
(***************************************************************************)
RootPath ==
    (ppc = "done" /\ target.inode = ROOT_INDEX) => result = FILE_SEP

\* slots 6 and 7 hold decodable records that name each other as parent with
\* matching sequence numbers
MutualCycle ==
    /\ \A n \in VarSlots : Decodable(buf[n + 1]) /\ buf[n + 1].fn.present
    /\ MREF(buf[7].fn.mft_parent_reference) = 7
    /\ MREF(buf[8].fn.mft_parent_reference) = 6
    /\ \A n \in VarSlots :
          MSEQNO(buf[n + 1].fn.mft_parent_reference) = ParentSlot(buf[n + 1].fn).sequence_number

(***************************************************************************)
(* C13: when two records with matching sequence numbers name each other as *)
(* parent, get_path of either returns a path containing <CYCLE>, in        *)
(* whichever order they are resolved and whatever the path cache holds     *)
(* from the earlier resolutions.                                           *)
(***************************************************************************)
CycleMarked ==
    (ppc = "done" /\ MutualCycle /\ target.inode \in VarSlots) =>
        Contains(result, CYCLE_ENTRY)

\* the second of two resolutions of a two-record cycle was answered from the
\* path cache
CycleMarkedWitness ==
    /\ ppc = "done"
    /\ MutualCycle
    /\ calls = 2
    /\ target.inode = 7
    /\ target.mft_record_number = 7
    /\ cycledetector = {}
    /\ exists(path_cache, PathKey(buf[7]))
    /\ Contains(result, CYCLE_ENTRY)

(***************************************************************************)
(* MFTEnumerator.get_record called from outside (MFT.py 1122-1152)         *)
(***************************************************************************)
GetRecords == 3
MaxGets == 3

\* the images: up to GetRecords slots, each intact or damaged
GetInit ==
    /\ \E n \in 0..GetRecords, kind \in [0..(GetRecords - 1) -> DamageKinds \cup {"none"}] :
          buf = [j \in 1..n |-> Damaged(PlainRecord(j - 1), kind[j - 1])]
    /\ record_cache = << >>
    /\ rc_limit \in {0, 2, DEFAULT_CACHE_SIZE}
    /\ index = 0
    /\ yielded = << >>
    /\ rec = NoRecord
    /\ epc = "idle"
    /\ runs = 0
    /\ gr = [status |-> "none"]
    /\ gr_calls = 0
    /\ CacheIdle /\ FixupIdle /\ PathIdle
    /\ LookupIdle /\ AttrIdle /\ TreeIdle
    /\ RunIdle /\ IndexIdle

\* get_record(record_num), lines 1135-1152; an exception leaves the object as
\* the statements before the raise left it
GetRecordCall(n) ==
    /\ gr_calls < MaxGets
    /\ LET r == get_record(buf, record_cache, rc_limit, n)
       IN  /\ record_cache' = r.cache
           /\ gr' = [status |-> r.status, n |-> n, pre |-> record_cache,
                     record |-> r.record, post |-> r.cache]
    /\ gr_calls' = gr_calls + 1
    /\ UNCHANGED <<buf, rc_limit, index, yielded, rec, epc, runs,
                   cvars, fvars, pvars, lvars, avars, tvars, yvars>>

GetNext == \E n \in 0..GetRecords : GetRecordCall(n)

GetSpec == GetInit /\ [][GetNext]_vars

\* the entries of an ordered map, without their order
Entries(d) == {d[i] : i \in 1..Len(d)}

\* the keys of an ordered map, oldest first
KeySeq(d) == [i \in 1..Len(d) |-> d[i][1]]

\* the order of the keys other than k
OrderWithout(d, k) == SelectSeq(KeySeq(d), LAMBDA x : x # k)

(***************************************************************************)
(* C15: get_record(n) returns the cached record and makes n the            *)
(* most-recent key when n is cached (the other keys keep their order);     *)
(* otherwise it signals overrun when (n+1)*1024 exceeds the buffer length  *)
(* and invalid-record when the slot's first dword is not 0x454C4946, and   *)
(* both errors leave the record cache as it was; on success the record     *)
(* decoded from slot n is returned and is the newest entry, under key n.   *)
(***************************************************************************)
GetRecordOutcomes ==
    gr.status # "none" =>
        LET n == gr.n
            hit == n \in KeysOf(gr.pre)
            beyond == (n + 1) * MFT_RECORD_SIZE > Len(buf) * MFT_RECORD_SIZE
        IN  /\ hit =>
                 /\ gr.status = "ok"
                 /\ <<n, gr.record>> \in Entries(gr.pre)
                 /\ Entries(gr.post) = Entries(gr.pre)
                 /\ KeySeq(gr.post)[Len(gr.post)] = n
                 /\ OrderWithout(gr.post, n) = OrderWithout(gr.pre, n)
            /\ (~hit /\ beyond) => gr.status = "overrun"
            /\ (~hit /\ ~beyond /\ buf[n + 1].magic # FILE_MAGIC) => gr.status = "invalid"
            /\ gr.status \in {"overrun", "invalid"} => gr.post = gr.pre
            /\ (~hit /\ gr.status = "ok") =>
                 /\ gr.record.magic = FILE_MAGIC
                 /\ gr.record.lsn = buf[n + 1].lsn
                 /\ gr.record.mft_record_number = buf[n + 1].mft_record_number
                 /\ rc_limit >= 1 => gr.post[Len(gr.post)] = <<n, gr.record>>
                 /\ Entries(gr.post) \subseteq Entries(gr.pre) \cup {<<n, gr.record>>}

\* a hit that reordered the cache, after an invalid-record and an overrun
GetRecordOutcomesWitness ==
    /\ gr.status = "ok"
    /\ gr_calls = MaxGets
    /\ exists(gr.pre, gr.n)
    /\ gr.post # gr.pre
    /\ \E j \in 1..Len(buf) : buf[j].magic # FILE_MAGIC

(***************************************************************************)
(* MFTEnumerator.get_record_by_path (MFT.py 1169-1172, 1238-1243)          *)
(***************************************************************************)
UpperCase == <<"A", "B", "C", "D", "E", "F", "G", "H", "I", "J", "K", "L", "M",
               "N", "O", "P", "Q", "R", "S", "T", "U", "V", "W", "X", "Y", "Z">>
LowerCase == <<"a", "b", "c", "d", "e", "f", "g", "h", "i", "j", "k", "l", "m",
               "n", "o", "p", "q", "r", "s", "t", "u", "v", "w", "x", "y", "z">>

\* str.lower()
Lower(p) ==
    [i \in 1..Len(p) |->
        IF \E j \in 1..Len(UpperCase) : UpperCase[j] = p[i]
        THEN LowerCase[CHOOSE j \in 1..Len(UpperCase) : UpperCase[j] = p[i]]
        ELSE p[i]]

\* p = get_path(r) has returned; get_record_by_path(p) is called
LookupStart ==
    /\ lpc = "idle"
    /\ ppc = "done"
    /\ lk_path' = result
    /\ lk_from' = target
    /\ lk_index' = 0
    /\ lk_seen' = << >>
    /\ lpc' = "enum"
    /\ UNCHANGED <<lk_result, evars, pvars, cvars, fvars, gvars, avars, tvars, yvars>>

\* enumerate_paths asks enumerate_records for the next record and calls get_path
LookupEnum ==
    /\ lpc = "enum"
    /\ LET idx == IF lk_index = 12 THEN 16 ELSE lk_index
           r == get_record(buf, record_cache, rc_limit, idx)
       IN  /\ record_cache' = r.cache
           /\ CASE r.status = "ok" ->
                      /\ target' = r.record
                      /\ cur' = r.record
                      /\ stack' = << >>
                      /\ cycledetector' = {}
                      /\ ppc' = "call"
                      /\ lk_index' = idx
                      /\ lpc' = "path"
                [] r.status = "invalid" ->
                      /\ lk_index' = idx + 1
                      /\ UNCHANGED <<target, cur, stack, cycledetector, ppc, lpc>>
                [] r.status = "overrun" ->
                      /\ lk_index' = idx
                      /\ lpc' = "keyerror"
                      /\ UNCHANGED <<target, cur, stack, cycledetector, ppc>>
    /\ UNCHANGED <<lk_path, lk_from, lk_seen, lk_result,
                   path_cache, pcache_limit, ret, result, calls,
                   buf, rc_limit, index, yielded, rec, epc, runs,
                   cvars, fvars, gvars, avars, tvars, yvars>>

\* a slip in get_record_by_path: the record's path is compared as it is
LookupCompareNoLower ==
    /\ lpc = "path"
    /\ ppc = "done"
    /\ lk_seen' = Append(lk_seen, [record |-> target, path |-> result])
    /\ IF Lower(lk_path) = result
       THEN /\ lk_result' = target
            /\ lpc' = "found"
            /\ UNCHANGED lk_index
       ELSE /\ lk_index' = lk_index + 1
            /\ lpc' = "enum"
            /\ UNCHANGED lk_result
    /\ UNCHANGED <<lk_path, lk_from, evars, pvars, cvars, fvars, gvars, avars, tvars, yvars>>

\* get_record_by_path, lines 1240-1242: one (record, record_path) pair
LookupCompare ==
    /\ lpc = "path"
    /\ ppc = "done"
    /\ lk_seen' = Append(lk_seen, [record |-> target, path |-> result])
    /\ IF Lower(lk_path) = Lower(result)
       THEN /\ lk_result' = target
            /\ lpc' = "found"
            /\ UNCHANGED lk_index
       ELSE /\ lk_index' = lk_index + 1
            /\ lpc' = "enum"
            /\ UNCHANGED lk_result
    /\ UNCHANGED <<lk_path, lk_from, evars, pvars, cvars, fvars, gvars, avars, tvars, yvars>>

\* r = get_record(n); p = get_path(r), before the lookup starts
LookupGetPath == lpc = "idle" /\ \E n \in TargetSlots : PathCall(n)

LookupNext == LookupGetPath \/ PathRun \/ LookupStart \/ LookupEnum \/ LookupCompare

LookupSpec == PathInit /\ [][LookupNext]_vars

\* the path equals the argument of get_record_by_path, ignoring case
Matches(p) == Lower(p) = Lower(lk_path)

(***************************************************************************)
(* C14 as stated: for a record r with p = get_path(r),                     *)
(* get_record_by_path(p) returns a record whose mft_record_number equals   *)
(* r's (and so does not signal KeyError).                                  *)
(***************************************************************************)
PathRoundTrip ==
    /\ lpc # "keyerror"
    /\ lpc = "found" => lk_result.mft_record_number = lk_from.mft_record_number

(***************************************************************************)
(* C14 amended: get_record_by_path(p) returns the first record, in         *)
(* enumeration order, whose path as get_path computes it during the search *)
(* equals p ignoring case, and signals KeyError only when no enumerated    *)
(* record has such a path.                                                 *)
(***************************************************************************)
LookupFirstMatch ==
    /\ lpc = "found" =>
          /\ lk_seen # << >>
          /\ lk_seen[Len(lk_seen)].record = lk_result
          /\ Matches(lk_seen[Len(lk_seen)].path)
          /\ \A i \in 1..(Len(lk_seen) - 1) : ~Matches(lk_seen[i].path)
    /\ lpc = "keyerror" => \A i \in 1..Len(lk_seen) : ~Matches(lk_seen[i].path)

\* the lookup of \B returned a record other than the one the path came from,
\* after passing records with other paths
LookupFirstMatchWitness ==
    /\ lpc = "found"
    /\ lk_path = FILE_SEP \o <<"B">>
    /\ Len(lk_seen) > 1
    /\ lk_result.inode # lk_from.inode

(***************************************************************************)
(* MFTRecord.attributes, attribute, standard_information (MFT.py 949-1017) *)
(* and Attribute (MFT.py 791-880).  The record's bytes from attrs_offset   *)
(* on are a sequence of dwords, each a pair <<low word, high word>>.       *)
(***************************************************************************)
MaxAttrs == 3
STANDARD_INFORMATION == 16
FILENAME_INFORMATION == 48
DATA == 128
AttrTypes == {STANDARD_INFORMATION, FILENAME_INFORMATION, DATA}
AttrSizes == {24, 28, 32}
NameOffsets == {0, 24}

Dword(n) == <<n % 65536, n \div 65536>>
DwordValue(d) == d[1] + 65536 * d[2]
END_OF_ATTRIBUTES == <<65535, 65535>>

\* the smallest multiple of 8 that is not less than s
RoundUp8(s) == ((s + 7) \div 8) * 8

\* the dwords of one resident, unnamed attribute (fields of Attribute.__init__):
\* type, size, non_resident/name_length/name_offset, flags/instance,
\* value_length, value_offset/value_flags/reserved, then the value
AttributeDwords(a, instance, name_offset) ==
    <<Dword(a.type), Dword(a.size), <<0, name_offset>>, <<0, instance>>,
      Dword(a.size - 24), <<24, 0>>>>
    \o [i \in 1..((RoundUp8(a.size) - 24) \div 4) |-> Dword(0)]

RECURSIVE LayoutFrom(_, _, _)
LayoutFrom(layout, i, name_offset) ==
    IF i > Len(layout) THEN <<END_OF_ATTRIBUTES, Dword(0)>>
    ELSE AttributeDwords(layout[i], i - 1, name_offset) \o LayoutFrom(layout, i + 1, name_offset)

\* where attribute i of the layout starts
RECURSIVE LayoutOffset(_, _)
LayoutOffset(layout, i) ==
    IF i = 1 THEN 0 ELSE LayoutOffset(layout, i - 1) + RoundUp8(layout[i - 1].size)

\* self.offset() + self.bytes_in_use(), relative to attrs_offset
RightBorder(layout) == LayoutOffset(layout, Len(layout) + 1) + 8

\* unpack_dword; the rest of the 1024-byte record is zero
ReadDword(mem, offset) ==
    IF offset \div 4 + 1 <= Len(mem) THEN mem[offset \div 4 + 1] ELSE Dword(0)

\* Attribute.size, lines 875-877 (and __len__, line 866)
AttributeSize(mem, offset) ==
    LET s == DwordValue(ReadDword(mem, offset + 4))
    IN  s + (8 - (s % 8))

\* the loop condition of attributes, lines 953-955
AttributesContinue(mem, offset, right_border) ==
    /\ ReadDword(mem, offset) # Dword(0)
    /\ ReadDword(mem, offset) # END_OF_ATTRIBUTES
    /\ offset + DwordValue(ReadDword(mem, offset + 4)) <= right_border

\* Attribute(self._buf, offset, self)
AttributeAt(mem, offset) ==
    [type |-> DwordValue(ReadDword(mem, offset)), offset |-> offset,
     size |-> DwordValue(ReadDword(mem, offset + 4))]

\* everything the generator attributes() yields from offset on
RECURSIVE attributes(_, _, _)
attributes(mem, offset, right_border) ==
    IF AttributesContinue(mem, offset, right_border)
    THEN <<AttributeAt(mem, offset)>>
         \o attributes(mem, offset + AttributeSize(mem, offset), right_border)
    ELSE << >>

\* Python's exception classes: class -> base class
ExceptionBase ==
    [AttributeNotFoundError |-> "Exception", AttributeError |-> "Exception",
     KeyError |-> "LookupError", IndexError |-> "LookupError",
     LookupError |-> "Exception", Exception |-> "BaseException"]

\* an `except base` clause catches an exception of class cls
Catches(base, cls) ==
    \/ cls = base
    \/ cls \in DOMAIN ExceptionBase /\ ExceptionBase[cls] = base
    \/ cls \in DOMAIN ExceptionBase /\ ExceptionBase[cls] \in DOMAIN ExceptionBase
       /\ ExceptionBase[ExceptionBase[cls]] = base

\* attribute(attr_type), lines 960-964
attribute(mem, right_border, attr_type) ==
    LET as == SelectSeq(attributes(mem, 0, right_border), LAMBDA a : a.type = attr_type)
    IN  IF as # << >> THEN [status |-> "ok", value |-> as[1]]
        ELSE [status |-> "raised", exception |-> "AttributeNotFoundError"]

\* standard_information, lines 1012-1017
standard_information(mem, right_border) ==
    LET attr == attribute(mem, right_border, STANDARD_INFORMATION)
    IN  IF attr.status = "ok" THEN [status |-> "ok", value |-> attr.value]
        ELSE IF Catches("AttributeError", attr.exception)
             THEN [status |-> "ok", value |-> "None"]
             ELSE attr

\* a record holding up to MaxAttrs well-formed attributes back to back
AttrInit ==
    /\ \E n \in 0..MaxAttrs, f \in [1..MaxAttrs -> AttrTypes \X AttrSizes],
          name_offset \in NameOffsets :
          /\ a_layout = [i \in 1..n |-> [type |-> f[i][1], size |-> f[i][2]]]
          /\ a_mem = LayoutFrom(a_layout, 1, name_offset)
    /\ a_offset = 0
    /\ a_yield = << >>
    /\ a_si = [status |-> "none"]
    /\ apc = "loop"
    /\ CacheIdle /\ FixupIdle /\ EnumIdle /\ PathIdle
    /\ GetIdle /\ LookupIdle /\ TreeIdle
    /\ RunIdle /\ IndexIdle

\* attributes, lines 953-958: one test of the loop condition and one yield
AttributesStep ==
    /\ apc = "loop"
    /\ IF AttributesContinue(a_mem, a_offset, RightBorder(a_layout))
       THEN /\ a_yield' = Append(a_yield, AttributeAt(a_mem, a_offset))
            /\ a_offset' = a_offset + AttributeSize(a_mem, a_offset)
            /\ UNCHANGED apc
       ELSE /\ apc' = "done"
            /\ UNCHANGED <<a_yield, a_offset>>
    /\ UNCHANGED <<a_layout, a_mem, a_si, cvars, fvars, evars, pvars, gvars, lvars, tvars, yvars>>

\* record.standard_information()
StandardInformationCall ==
    /\ apc = "done"
    /\ a_si' = standard_information(a_mem, RightBorder(a_layout))
    /\ apc' = "called"
    /\ UNCHANGED <<a_layout, a_mem, a_offset, a_yield,
                   cvars, fvars, evars, pvars, gvars, lvars, tvars, yvars>>

AttrNext == AttributesStep \/ StandardInformationCall

AttrSpec == AttrInit /\ [][AttrNext]_vars

(***************************************************************************)
(* C16 as stated: standard_information() returns None, and signals no      *)
(* error, for every record that has no STANDARD_INFORMATION attribute.     *)
(***************************************************************************)
StandardInformationAbsent ==
    (/\ apc = "called"
     /\ \A i \in 1..Len(a_layout) : a_layout[i].type # STANDARD_INFORMATION
     /\ \A i \in 1..Len(a_yield) : a_yield[i].type # STANDARD_INFORMATION) =>
        a_si = [status |-> "ok", value |-> "None"]

ORPHAN_INDEX == 12
TREE_CACHE_SIZE == 1024

\* MFTTreeNode.__init__, lines 1247-1253
MFTTreeNode(record_number, filename, parent_record_number, created) ==
    [record_number |-> record_number, filename |-> filename,
     parent |-> parent_record_number, children |-> << >>, created |-> created]

\* a record in slot 0 that stores record number 7
AliasRecord ==
    [PlainRecord(0) EXCEPT !.mft_record_number = 7, !.lsn = 77,
                           !.fn = Fn(<<"c">>, ROOT_INDEX, 1)]

\* MFTTree(buf).build(record_cache): the node map is pre-seeded with $ORPHAN
TreeInit ==
    /\ \E root \in RootRecords, first \in {PlainRecord(0), AliasRecord},
          v \in [VarSlots -> UNION {SlotRecords(n) : n \in VarSlots}] :
          /\ \A n \in VarSlots : v[n] \in SlotRecords(n)
          /\ buf = [j \in 1..PathRecords |->
                       IF j - 1 = ROOT_INDEX THEN root
                       ELSE IF (j - 1) \in VarSlots THEN v[j - 1]
                       ELSE IF j = 1 THEN first
                       ELSE PlainRecord(j - 1)]
    /\ record_cache = << >>
    /\ rc_limit \in {1, TREE_CACHE_SIZE}
    /\ index = 0
    /\ yielded = << >>
    /\ rec = NoRecord
    /\ epc = "idle"
    /\ runs = 0
    /\ nodes = (ORPHAN_INDEX :> MFTTreeNode(ORPHAN_INDEX, ORPHAN_ENTRY, ROOT_INDEX, 1))
    /\ t_created = 1
    /\ t_cur = NoRecord
    /\ t_stack = << >>
    /\ tpc = "enum"
    /\ CacheIdle /\ FixupIdle /\ PathIdle
    /\ GetIdle /\ LookupIdle /\ AttrIdle
    /\ RunIdle /\ IndexIdle

\* build, line 1346: the loop asks enumerate_records for the next record
TreeEnum ==
    /\ tpc = "enum"
    /\ LET idx == IF index = 12 THEN 16 ELSE index
           r == get_record(buf, record_cache, rc_limit, idx)
       IN  /\ record_cache' = r.cache
           /\ index' = IF r.status = "invalid" THEN idx + 1 ELSE idx
           /\ CASE r.status = "ok" ->
                      /\ t_cur' = r.record
                      /\ tpc' = "add"
                [] r.status = "invalid" ->
                      UNCHANGED <<t_cur, tpc>>
                [] r.status = "overrun" ->
                      /\ tpc' = "done"
                      /\ UNCHANGED t_cur
    /\ UNCHANGED <<nodes, t_stack, t_created, buf, rc_limit, yielded, rec, epc, runs,
                   cvars, fvars, pvars, gvars, lvars, avars, yvars>>

\* _add_record, lines 1322-1330: the parent's node is fetched, the record's node
\* is stored and appended to the parent's children.  parent_node is the object
\* found before the store, so when the store replaces that very node the child
\* is appended to the replaced object
Link(ns, created, record_num, filename, parent_record_num) ==
    LET node == MFTTreeNode(record_num, filename, parent_record_num, created + 1)
        stored == (record_num :> node) @@ ns
    IN  IF parent_record_num = record_num THEN stored
        ELSE [stored EXCEPT ![parent_record_num].children = Append(@, record_num)]

\* _add_record, lines 1287-1330, from its entry to its return or to the
\* recursive call of line 1320
TreeAddEnter ==
    /\ tpc = "add"
    /\ LET record_num == t_cur.mft_record_number
           fn == t_cur.fn
           ref_num == MREF(fn.mft_parent_reference)
           parent_seq_num == MSEQNO(fn.mft_parent_reference)
           p == get_record(buf, record_cache, rc_limit, ref_num)
           parent_record_num ==
               IF p.status # "ok" THEN ORPHAN_INDEX
               ELSE IF p.record.sequence_number # parent_seq_num THEN ORPHAN_INDEX
               ELSE ref_num
       IN  IF record_num \in DOMAIN nodes
           THEN /\ tpc' = "return"
                /\ UNCHANGED <<nodes, t_created, record_cache, t_cur, t_stack>>
           ELSE IF record_num = ROOT_INDEX
           THEN /\ nodes' = (ROOT_INDEX :> MFTTreeNode(ROOT_INDEX, FILE_SEP \o <<".">>,
                                                       ROOT_INDEX, t_created + 1)) @@ nodes
                /\ t_created' = t_created + 1
                /\ tpc' = "return"
                /\ UNCHANGED <<record_cache, t_cur, t_stack>>
           ELSE IF ~fn.present
           THEN /\ tpc' = "return"
                /\ UNCHANGED <<nodes, t_created, record_cache, t_cur, t_stack>>
           ELSE /\ record_cache' = p.cache
                /\ IF parent_record_num # ORPHAN_INDEX
                   THEN IF Len(t_stack) + 1 >= RecursionLimit
                        THEN \* the interpreter refuses the recursive call
                             /\ tpc' = "recursion_error"
                             /\ UNCHANGED <<nodes, t_created, t_cur, t_stack>>
                        ELSE \* line 1320: the recursive call
                             /\ t_stack' = Append(t_stack,
                                                  [record_num |-> record_num,
                                                   filename |-> fn.filename,
                                                   parent_record_num |-> parent_record_num])
                             /\ t_cur' = p.record
                             /\ tpc' = "add"
                             /\ UNCHANGED <<nodes, t_created>>
                   ELSE \* the $ORPHAN node is in the map since build began
                        /\ nodes' = Link(nodes, t_created, record_num, fn.filename,
                                         ORPHAN_INDEX)
                        /\ t_created' = t_created + 1
                        /\ tpc' = "return"
                        /\ UNCHANGED <<t_cur, t_stack>>
    /\ UNCHANGED <<buf, rc_limit, index, yielded, rec, epc, runs,
                   cvars, fvars, pvars, gvars, lvars, avars, yvars>>

\* an _add_record call has returned: to the loop of build, or to line 1322
\* of the suspended call, where a missing key raises KeyError
\* (`except IndexError` does not catch it)
TreeAddReturn ==
    /\ tpc = "return"
    /\ IF t_stack = << >>
       THEN /\ index' = index + 1
            /\ tpc' = "enum"
            /\ UNCHANGED <<nodes, t_created, t_stack>>
       ELSE LET frame == t_stack[Len(t_stack)]
            IN  /\ t_stack' = SubSeq(t_stack, 1, Len(t_stack) - 1)
                /\ UNCHANGED index
                /\ IF frame.parent_record_num \in DOMAIN nodes
                   THEN /\ nodes' = Link(nodes, t_created, frame.record_num,
                                         frame.filename, frame.parent_record_num)
                        /\ t_created' = t_created + 1
                        /\ tpc' = "return"
                   ELSE \* caught, line 1329 would read the unbound parent_node
                        /\ tpc' = IF Catches("IndexError", "KeyError")
                                  THEN "nameerror" ELSE "keyerror"
                        /\ UNCHANGED <<nodes, t_created>>
    /\ UNCHANGED <<t_cur, buf, record_cache, rc_limit, yielded, rec, epc, runs,
                   cvars, fvars, pvars, gvars, lvars, avars, yvars>>

TreeNext == TreeEnum \/ TreeAddEnter \/ TreeAddReturn

TreeSpec == TreeInit /\ [][TreeNext]_vars

\* how often record number n occurs in a child list
Occurrences(children, n) == Cardinality({i \in 1..Len(children) : children[i] = n})

(***************************************************************************)
(* C17 as stated: after build on an image whose record 5 is valid, the     *)
(* $ORPHAN node 12 has parent record number 5 and 12 appears in the child  *)
(* list of the root node get_root() returns.                               *)
(***************************************************************************)
OrphanUnderRoot ==
    (tpc = "done" /\ ROOT_INDEX \in DOMAIN nodes) =>
        /\ ORPHAN_INDEX \in DOMAIN nodes
        /\ nodes[ORPHAN_INDEX].filename = ORPHAN_ENTRY
        /\ nodes[ORPHAN_INDEX].parent = ROOT_INDEX
        /\ Occurrences(nodes[ROOT_INDEX].children, ORPHAN_INDEX) >= 1

(***************************************************************************)
(* C18 as stated: at every point during and after build, every node n      *)
(* other than the root and $ORPHAN has a parent record number that is a    *)
(* key of the node map whose node was created before n, and n's record     *)
(* number occurs exactly once in that parent's child list and in no other  *)
(* node's child list.                                                      *)
(***************************************************************************)
TreeConsistent ==
    \A n \in DOMAIN nodes \ {ROOT_INDEX, ORPHAN_INDEX} :
        /\ nodes[n].parent \in DOMAIN nodes
        /\ nodes[nodes[n].parent].created < nodes[n].created
        /\ Occurrences(nodes[nodes[n].parent].children, n) = 1
        /\ \A m \in DOMAIN nodes \ {nodes[n].parent} :
              Occurrences(nodes[m].children, n) = 0

(***************************************************************************)
(* C19 as stated: when, after the recursive parent add, the parent's node  *)
(* is absent from the node map, _add_record reparents the record to        *)
(* ORPHAN_INDEX and build continues instead of failing.                    *)
(***************************************************************************)
MissingParentReparented ==
    [][(/\ tpc = "return"
        /\ t_stack # << >>
        /\ t_stack[Len(t_stack)].parent_record_num \notin DOMAIN nodes) =>
           (/\ tpc' = "return"
            /\ t_stack[Len(t_stack)].record_num \in DOMAIN nodes'
            /\ nodes'[t_stack[Len(t_stack)].record_num].parent = ORPHAN_INDEX)]_vars

\* _get_path_impl, lines 1195-1236, run with an empty path cache: nothing is
\* found in the cache, and what is stored is never read back
RECURSIVE FreshPathImpl(_, _)
FreshPathImpl(record, cycle) ==
    LET record_num == record.mft_record_number
        fn == record.fn
        parent_record_num == MREF(fn.mft_parent_reference)
        p == get_record(buf, << >>, DEFAULT_CACHE_SIZE, parent_record_num)
    IN  IF record_num = ROOT_INDEX THEN << >>
        ELSE IF record_num \in cycle THEN CYCLE_ENTRY
        ELSE IF ~fn.present THEN UNKNOWN_ENTRY
        ELSE IF p.status # "ok" THEN ORPHAN_ENTRY \o FILE_SEP \o fn.filename
        ELSE IF p.record.sequence_number # MSEQNO(fn.mft_parent_reference)
             THEN ORPHAN_ENTRY \o FILE_SEP \o fn.filename
        ELSE FreshPathImpl(p.record, cycle \cup {record_num}) \o FILE_SEP \o fn.filename

\* get_path, lines 1188-1192, on an enumerator whose caches are empty
FreshPath(record) ==
    LET r == FreshPathImpl(record, {})
    IN  IF r = << >> THEN FILE_SEP ELSE r

(***************************************************************************)
(* C23 as stated: get_path(r) returns the string a fresh resolution with   *)
(* empty caches computes, whatever get_path calls preceded it and whatever *)
(* the path cache holds, also for records on a parent cycle.               *)
(***************************************************************************)
PathHistoryIndependent ==
    ppc = "done" => result = FreshPath(target)

(***************************************************************************)
(* C24 as stated: build terminates for every image, parent-reference       *)
(* cycles and self-parents included: _add_record is never entered for a    *)
(* record number whose _add_record call is still running, and the          *)
(* recursion never exhausts the stack.                                     *)
(***************************************************************************)
BuildNeverReenters ==
    /\ tpc # "recursion_error"
    /\ tpc = "add" =>
          \A i \in 1..Len(t_stack) : t_stack[i].record_num # t_cur.mft_record_number

(***************************************************************************)
(* Runentry (MFT.py 680-736) and Runlist (MFT.py 739-779).  The buffer is  *)
(* the bytes written at the runlist's offset; the rest of the record       *)
(* behind them is zero.                                                    *)
(***************************************************************************)
MaxRunBytes == 6
RunBytes == {0, 1, 17, 33, 128}
RunLengths == {0, 3}

\* unpack_byte / one byte of unpack_binary
ByteAt(b, o) == IF o + 1 <= Len(b) THEN b[o + 1] ELSE 0

\* Runentry.__init__, lines 681-691
Runentry(b, o) ==
    LET header == ByteAt(b, o)
        offset_length == header \div 16
        length_length == header % 16
    IN  [header |-> header, offset_length |-> offset_length,
         length_length |-> length_length,
         length_binary |-> [i \in 1..length_length |-> ByteAt(b, o + i)],
         offset_binary |-> [i \in 1..offset_length |-> ByteAt(b, o + length_length + i)]]

\* Runentry.__len__, lines 698-699
RunentryLen(e) == 1 + (e.length_length + e.offset_length)

\* Runentry.is_valid, lines 701-702
RunentryValid(e) == e.offset_length > 0 /\ e.length_length > 0

\* the loop of lsb2num and lsb2signednum: ret += b << (8 * count)
RECURSIVE ShiftSum(_, _)
ShiftSum(binary, count) ==
    IF count >= Len(binary) THEN 0
    ELSE binary[count + 1] * (2 ^ (8 * count)) + ShiftSum(binary, count + 1)

\* Runentry.lsb2num, lines 704-710
lsb2num(binary) == ShiftSum(binary, 0)

\* a slip in lsb2signednum: the 1 is not added after the bytes are inverted
lsb2signednum_nocarry(binary) ==
    LET is_negative == binary[Len(binary)] >= 128
        working == IF is_negative THEN [i \in 1..Len(binary) |-> 255 - binary[i]]
                   ELSE binary
    IN  IF is_negative THEN (ShiftSum(working, 0)) * (-1) ELSE ShiftSum(working, 0)

\* Runentry.lsb2signednum, lines 712-728 (b ^ 0xFF is 255 - b for a byte)
lsb2signednum(binary) ==
    LET is_negative == binary[Len(binary)] >= 128
        working == IF is_negative THEN [i \in 1..Len(binary) |-> 255 - binary[i]]
                   ELSE binary
    IN  IF is_negative THEN (ShiftSum(working, 0) + 1) * (-1) ELSE ShiftSum(working, 0)

\* Runlist(buf, offset, parent).runs(length) is called
RunInit ==
    /\ \E n \in 0..MaxRunBytes, f \in [1..MaxRunBytes -> RunBytes] :
          r_buf = [i \in 1..n |-> f[i]]
    /\ r_length \in RunLengths
    /\ r_offset = 0
    /\ r_entries = << >>
    /\ r_last = 0
    /\ r_yield = << >>
    /\ rpc = "entries"
    /\ CacheIdle /\ FixupIdle /\ EnumIdle /\ PathIdle
    /\ GetIdle /\ LookupIdle /\ AttrIdle /\ TreeIdle
    /\ IndexIdle

\* _entries, lines 760-767: one test of the loop condition
EntriesStep ==
    /\ rpc = "entries"
    /\ LET entry == Runentry(r_buf, r_offset)
       IN  IF /\ entry.header # 0
              /\ (r_length = 0 \/ r_offset < r_length)
              /\ RunentryValid(entry)
           THEN /\ r_entries' = Append(r_entries, r_offset)
                /\ r_offset' = r_offset + RunentryLen(entry)
                /\ UNCHANGED rpc
           ELSE /\ rpc' = "runs"
                /\ UNCHANGED <<r_entries, r_offset>>
    /\ UNCHANGED <<r_buf, r_length, r_last, r_yield,
                   cvars, fvars, evars, pvars, xvars, ivars>>

\* runs, lines 774-779: one entry of the list, or the end of the generator
RunsStep ==
    /\ rpc = "runs"
    /\ IF Len(r_yield) < Len(r_entries)
       THEN LET e == Runentry(r_buf, r_entries[Len(r_yield) + 1])
                current_offset == r_last + lsb2signednum(e.offset_binary)
                current_length == lsb2num(e.length_binary)
            IN  /\ r_last' = current_offset
                /\ r_yield' = Append(r_yield, <<current_offset, current_length>>)
                /\ UNCHANGED rpc
       ELSE /\ rpc' = "done"
            /\ UNCHANGED <<r_last, r_yield>>
    /\ UNCHANGED <<r_buf, r_length, r_offset, r_entries,
                   cvars, fvars, evars, pvars, xvars, ivars>>

RunNext == EntriesStep \/ RunsStep

RunSpec == RunInit /\ [][RunNext]_vars

\* the unsigned little-endian value of a byte string
RECURSIVE LittleEndian(_)
LittleEndian(binary) ==
    IF binary = << >> THEN 0 ELSE binary[1] + 256 * LittleEndian(Tail(binary))

\* the two's-complement value of a little-endian byte string
TwosComplement(binary) ==
    IF LittleEndian(binary) >= 2 ^ (8 * Len(binary) - 1)
    THEN LittleEndian(binary) - 2 ^ (8 * Len(binary))
    ELSE LittleEndian(binary)

\* the runs the bytes from offset o on describe, the running offset being sum
RECURSIVE DescribedRuns(_, _, _)
DescribedRuns(b, o, sum) ==
    LET header == ByteAt(b, o)
        length_length == header % 16
        offset_length == header \div 16
        length == LittleEndian([i \in 1..length_length |-> ByteAt(b, o + i)])
        delta == TwosComplement([i \in 1..offset_length |->
                                     ByteAt(b, o + length_length + i)])
    IN  IF header = 0 \/ length_length = 0 \/ offset_length = 0 THEN << >>
        ELSE <<<<sum + delta, length>>>>
             \o DescribedRuns(b, o + 1 + length_length + offset_length, sum + delta)

(***************************************************************************)
(* C21: runs() yields for the k-th entry the pair (sum of the              *)
(* two's-complement offsets of entries 1..k, unsigned little-endian length *)
(* of entry k), the running offset starting at 0; decoding stops at the    *)
(* first header byte 0 or the first entry with a zero length-length or     *)
(* offset-length nibble, and nothing behind it is yielded.                 *)
(***************************************************************************)
RunsDecoded ==
    r_length = 0 =>
        LET described == DescribedRuns(r_buf, 0, 0)
        IN  /\ Len(r_yield) <= Len(described)
            /\ r_yield = SubSeq(described, 1, Len(r_yield))
            /\ rpc = "done" => r_yield = described

\* two runs were yielded, the first with a negative offset, the second
\* with a positive offset added to it
RunsDecodedWitness ==
    /\ rpc = "done"
    /\ r_length = 0
    /\ Len(r_yield) = 2
    /\ r_yield[1][1] < 0
    /\ r_yield[2][1] > r_yield[1][1]

(***************************************************************************)
(* INDEX.entries and INDEX.slack_entries (MFT.py 285-339) over the entry   *)
(* classes MFT_INDEX_ENTRY, SII_INDEX_ENTRY, SDH_INDEX_ENTRY (MFT.py       *)
(* 161-241).  The buffer is described by what an entry constructed at an   *)
(* offset decodes to: its length field and whether the four timestamps of   *)
(* its FILENAME part lie between 1990 and 2025.  The INDEX block itself is  *)
(* at offset 0 of the buffer.                                              *)
(***************************************************************************)
MaxIter == 4
IndexWindow == 3
ENTRY_MIN_SIZE == 82
EntryKinds ==
    {[length |-> 0, times_ok |-> FALSE],
     [length |-> 0, times_ok |-> TRUE],
     [length |-> 2, times_ok |-> TRUE],
     [length |-> 16, times_ok |-> FALSE]}
EntryClasses == {"MFT", "SII", "SDH"}

\* self._INDEX_ENTRY(self._buf, offset, self)
EntryAt(o) == i_ent[(o % Len(i_ent)) + 1]

\* header().length(), a word at offset 8 of the entry, cannot be read
LengthOverruns(o) == Overrun(i_buflen, o + 8, 2)

\* the outcomes of e.is_valid() for the entry at offset o.
\* MFT_INDEX_ENTRY, lines 176-197: an exception of filename_information() gives
\* False, an overrun in a timestamp accessor leaves is_valid (only ValueError
\* is caught there).  SII_INDEX_ENTRY, lines 216-219, SDH_INDEX_ENTRY, lines
\* 239-241: header().key_lenght() names a field that no header declares
is_valid(class, o) ==
    IF class = "MFT"
    THEN IF Overrun(i_buflen, o, ENTRY_MIN_SIZE) THEN {"false", "overrun"}
         ELSE IF EntryAt(o).times_ok THEN {"true"} ELSE {"false"}
    ELSE IF LengthOverruns(o) THEN {"overrun"}
         ELSE IF 1 < EntryAt(o).length /\ EntryAt(o).length < 48
              THEN {"attribute_error"}
              ELSE {"false"}

\* INDEX(buf, offset, parent, index_entry_class), then entries() or slack_entries()
IndexInit ==
    /\ i_class \in EntryClasses
    /\ i_mode \in {"entries", "slack"}
    /\ \E eo \in {0, 16}, il \in {16, 98, 100}, room \in {81, 84} :
          i_hdr = [entries_offset |-> eo, index_length |-> il,
                   allocated_size |-> il + room]
    /\ i_buflen \in {20, i_hdr.allocated_size}
    /\ i_ent \in [1..IndexWindow -> EntryKinds]
    /\ i_offset = IF i_mode = "entries" THEN i_hdr.entries_offset ELSE i_hdr.index_length
    /\ i_count = 0
    /\ ipc = "loop"
    /\ CacheIdle /\ FixupIdle /\ EnumIdle /\ PathIdle
    /\ GetIdle /\ LookupIdle /\ AttrIdle /\ TreeIdle
    /\ RunIdle

\* entries, lines 303-313: `if offset == 0: return`, then one iteration of the loop
IndexEntriesStep ==
    /\ ipc = "loop"
    /\ i_mode = "entries"
    /\ i_count < MaxIter
    /\ IF i_offset = 0 \/ ~(i_offset <= i_hdr.index_length - ENTRY_MIN_SIZE)
       THEN /\ ipc' = "done"
            /\ UNCHANGED <<i_offset, i_count>>
       ELSE IF LengthOverruns(i_offset)
       THEN /\ ipc' = "raised"
            /\ UNCHANGED <<i_offset, i_count>>
       ELSE /\ i_offset' = i_offset + EntryAt(i_offset).length
            /\ i_count' = i_count + 1
            /\ UNCHANGED ipc
    /\ UNCHANGED <<i_class, i_hdr, i_buflen, i_ent, i_mode,
                   cvars, fvars, evars, pvars, xvars, rvars>>

\* what an overrun inside the scan does: the scan ends silently
SlackOverrunEnds == "done"

\* slack_entries, lines 320-339: one iteration of the loop
IndexSlackStep ==
    /\ ipc = "loop"
    /\ i_mode = "slack"
    /\ i_count < MaxIter
    /\ IF ~(i_offset <= i_hdr.allocated_size - ENTRY_MIN_SIZE)
       THEN /\ ipc' = "done"
            /\ UNCHANGED <<i_offset, i_count>>
       ELSE \E valid \in is_valid(i_class, i_offset) :
               /\ i_count' = i_count + 1
               /\ CASE valid = "true" ->
                          \* offset += len(e) or 1; yield e
                          /\ i_offset' = i_offset + (IF EntryAt(i_offset).length # 0
                                                     THEN EntryAt(i_offset).length ELSE 1)
                          /\ UNCHANGED ipc
                    [] valid = "false" ->
                          \* ParseException raised and caught: offset += 1
                          /\ i_offset' = i_offset + 1
                          /\ UNCHANGED ipc
                    [] valid = "overrun" ->
                          /\ ipc' = SlackOverrunEnds
                          /\ UNCHANGED i_offset
                    [] valid = "attribute_error" ->
                          \* caught by neither except clause
                          /\ ipc' = "raised"
                          /\ UNCHANGED i_offset
    /\ UNCHANGED <<i_class, i_hdr, i_buflen, i_ent, i_mode,
                   cvars, fvars, evars, pvars, xvars, rvars>>

IndexNext == IndexEntriesStep \/ IndexSlackStep

IndexSpec == IndexInit /\ [][IndexNext]_vars

(***************************************************************************)
(* C22 as stated: slack_entries() never raises, and every iteration        *)
(* strictly increases the scan offset: by max(entry length, 1) after a     *)
(* validated entry, by exactly 1 after a decode or validation failure.     *)
(***************************************************************************)
SlackScanAdvances ==
    /\ [](i_mode = "slack" => ipc # "raised")
    /\ [][(i_mode = "slack" /\ ipc = "loop" /\ ipc' = "loop") =>
             /\ i_offset' > i_offset
             /\ \/ i_offset' = i_offset + 1
                \/ i_offset' = i_offset + EntryAt(i_offset).length]_vars

(***************************************************************************)
(* C25 as stated: every iteration of entries() strictly increases the scan *)
(* offset, for every value of the entry-length field including 0, so the   *)
(* loop ends.                                                              *)
(***************************************************************************)
EntriesScanAdvances ==
    [][(i_mode = "entries" /\ ipc = "loop" /\ ipc' = "loop") =>
          i_offset' > i_offset]_vars

====
